---- MODULE Spec2Model ----
(***************************************************************************)
(* bevy-midi-playground: the MIDI input bridge (src/src/midi.rs) and the   *)
(* timeline scheduler / hit judgment of the Game screen                    *)
(* (src/src/states/game.rs), as a state machine.                           *)
(*                                                                         *)
(* One frame of the Bevy app runs every system of the Update stage once,   *)
(* in an order the schedule does not fix (no system is ordered against     *)
(* another), then applies the buffered Commands.  Each system is one       *)
(* action; `ran` holds the systems that already ran in the current frame.  *)
(* The driver thread's callback sends into the channel at any point.       *)
(*                                                                         *)
(* Numbers: f32 seconds are kept as integers in 1/TimeScale s, f32 world   *)
(* positions as integers in 1/PosScale units; the scales are chosen so     *)
(* that the position formula is exact for them.                            *)
(***************************************************************************)
EXTENDS Integers, Sequences, FiniteSets, TLC

(* ------------------------------ scales -------------------------------- *)
PosScale == 32
TimeScale == 48

(* ------------------------- program constants -------------------------- *)
KEY_HISTORY_LENGTH == 10
TIMELINE_TOP == 30
TIMELINE_BOTTOM == 0
TIMELINE_LENGTH == 10
TIMELINE_TOTAL_TIME == 30
INITIAL_SCORE == 1000
MAX_MISTAKE_DISTANCE == 5
KEY_ORDER == <<0, 1, 0, 1, 0, 0, 1, 0, 1, 0, 1, 0>>

\* WHITE_KEY_HEIGHT = 5.5 world units, in position units
WHITE_KEY_HEIGHT == (55 * PosScale) \div 10

\* the compiled-in chart; times in clock units
MUSIC_TIMELINE ==
    << [time |-> 1 * TimeScale, note |-> 38, length |-> 3 * TimeScale],
       [time |-> 2 * TimeScale, note |-> 39, length |-> 3 * TimeScale],
       [time |-> 3 * TimeScale, note |-> 40, length |-> 3 * TimeScale] >>

(* ------------------------------ bounds -------------------------------- *)
\* inputs of a run of the game: clicks in the debug window plus raw frames
\* delivered by the device
MaxInputs == 3
\* raw frames the device delivers in a run of the bridge specification
MaxBridgeFrames == 12
\* messages pending in the channel at the start of a run of the sync specification
MaxPending == 3
\* input ports the driver can report
MaxPorts == 2
\* clicks in the device list in a run of the connection specification
MaxSelects == 2
\* raw frames the device delivers in a run of the connection specification
MaxConnectFrames == 2
\* raw frames the device delivers in a run of the frame specification
MaxRawFrames == 2

(* ------------------------------ inputs -------------------------------- *)
\* time.delta() of a frame, in clock units
TickDeltas == {220}
\* raw MIDI frames [status, key, velocity] delivered to the callback
GameFrames == { <<144, 38, 64>>, <<128, 39, 0>> }
BridgeFrames == { <<144, 38, 64>> }
\* raw frames of every length from 0 to 4 bytes and of every kind of status
\* byte: note on, note off, aftertouch, control change
RawFrames ==
    { <<>>, <<144>>, <<144, 38>>, <<144, 38, 64>>, <<128, 38, 0>>,
      <<160, 39, 10>>, <<176, 7, 100>>, <<144, 40, 64, 1>> }
\* the frames of a game with a Holding frame and a key that is on no chart item
JudgeFrames == GameFrames \cup { <<160, 40, 64>>, <<144, 41, 64>> }

VARIABLES
    channel,        \* MidiInputReader: messages sent and not yet received
    input_state,    \* MidiInputState: connected, keys, octave
    unread,         \* Events<MidiInputKey> not yet read by check_timeline_collisions
    judged,         \* the key events the latest run of check_timeline_collisions read
    broadcast,      \* every MidiInputKey sent through the EventWriter, in order
    nframes,        \* raw frames delivered to the callback so far
    sent,           \* every MidiInputKey the callback sent into the channel, in order
    received,       \* every MidiResponse try_recv returned to sync_keys, in order
    timeline_state, \* MusicTimelineState: current, playing, complete, timer
    game_state,     \* GameState: score
    notes,          \* live TimelineNote entities
    spawned,        \* Commands: entities spawned in this frame, not yet applied
    despawned,      \* Commands: entities despawned in this frame, not yet applied
    ran,            \* systems that ran in the current frame
    delta,          \* time.delta() of the current frame
    clicks,         \* the buttons clicked in the debug window so far, in order
    app_state,      \* State<AppState> and the NextState<AppState> set in this frame
    select_events,  \* Events<SelectDeviceEvent> not yet read by select_device
    available_ports,\* MidiSetupState.available_ports: how many ports the list shows
    device_ports,   \* how many input ports the driver reports now
    connection,     \* the stored MidiInputConnection: <<>> or <<port>>
    link,           \* the device behind the connection: "none", "open" or "lost"
    attempts,       \* what the latest run of select_device did for each event
    nselects,       \* clicks in the device list so far
    panicked,       \* a system has panicked: the app is gone
    select_run,     \* where a running select_device is, and its locals
    frame_advance   \* by how much the timeline clock has advanced in this frame

bridge_vars == <<channel, input_state, unread, judged, broadcast, nframes, sent,
                 received>>
game_vars == <<timeline_state, game_state, notes, spawned, despawned>>
frame_vars == <<ran, delta, clicks, frame_advance>>
device_vars == <<app_state, select_events, available_ports, device_ports,
                 connection, link, attempts, nselects, panicked, select_run>>
vars == <<channel, input_state, unread, judged, broadcast, nframes, sent, received,
          timeline_state, game_state, notes, spawned, despawned, ran, delta,
          clicks, app_state, select_events, available_ports, device_ports,
          connection, link, attempts, nselects, panicked, select_run,
          frame_advance>>

Systems == {"sync_keys", "spawn_music_timeline", "animate_music_timeline",
            "check_timeline_collisions", "clear_complete_timeline_notes",
            "debug_game_ui"}

(* ------------------------- bevy_time::Timer --------------------------- *)
\* Timer::new / Timer::from_seconds, TimerMode::Once
TimerNew(duration) ==
    [elapsed |-> 0, duration |-> duration, paused |-> FALSE, finished |-> FALSE]

\* Timer::tick for TimerMode::Once: nothing while paused or finished; the
\* elapsed time is clamped to the duration when it is reached
TimerTick(t, d) ==
    IF t.paused \/ t.finished THEN t
    ELSE IF t.elapsed + d >= t.duration
         THEN [t EXCEPT !.elapsed = t.duration, !.finished = TRUE]
         ELSE [t EXCEPT !.elapsed = t.elapsed + d]

\* Timer::reset: elapsed 0, not finished; the paused flag is kept
TimerReset(t) == [t EXCEPT !.elapsed = 0, !.finished = FALSE]
TimerPause(t) == [t EXCEPT !.paused = TRUE]
TimerUnpause(t) == [t EXCEPT !.paused = FALSE]

(* --------------------- midi.rs: callback and bridge ------------------- *)
\* a match without the arm for 160
EventTypeNoHolding(status) ==
    CASE status = 144 -> "Pressed"
      [] status = 128 -> "Released"
      [] OTHER -> "Pressed"

\* the match on message[0] in the connection callback
EventType(status) ==
    CASE status = 144 -> "Pressed"
      [] status = 128 -> "Released"
      [] status = 160 -> "Holding"
      [] OTHER -> "Pressed"

\* MidiInputKey built by the callback from a frame of at least 3 bytes
InputKey(stamp, message) ==
    [timestamp |-> stamp, event |-> EventType(message[1]),
     id |-> message[2], intensity |-> message[3]]

\* MidiResponse values; key is meaningful for Input only
NoKey == [timestamp |-> 0, event |-> "Pressed", id |-> 0, intensity |-> 0]
MsgInput(key) == [type |-> "Input", key |-> key]
MsgConnected == [type |-> "Connected", key |-> NoKey]
MsgDisconnected == [type |-> "Disconnected", key |-> NoKey]

\* a callback that answers a short frame with a default key event
CallbackSendsDefault(stamp, message) ==
    IF Len(message) < 3 THEN << MsgInput(NoKey) >>
    ELSE << MsgInput(InputKey(stamp, message)) >>

\* what the callback sends for one raw frame: nothing for a short frame
CallbackSends(stamp, message) ==
    IF Len(message) < 3 THEN <<>> ELSE << MsgInput(InputKey(stamp, message)) >>

\* the closure given to input.connect, run by the driver thread for a frame;
\* stamp is the driver's increasing time stamp
Callback(message, budget) ==
    /\ nframes + Len(clicks) < budget
    /\ nframes' = nframes + 1
    /\ channel' = channel \o CallbackSends(nframes + 1, message)
    /\ sent' = sent \o [i \in 1..Len(CallbackSends(nframes + 1, message)) |->
                            CallbackSends(nframes + 1, message)[i].key]
    /\ UNCHANGED <<input_state, unread, judged, broadcast, received>>
    /\ UNCHANGED game_vars
    /\ UNCHANGED frame_vars
    /\ UNCHANGED device_vars

\* a trim that drops the oldest entry only once the history exceeds its length
TrimHistoryOffByOne(keys) ==
    IF Len(keys) > KEY_HISTORY_LENGTH THEN Tail(keys) ELSE keys

\* while keys.len() >= KEY_HISTORY_LENGTH { keys.remove(0) }
RECURSIVE TrimHistory(_)
TrimHistory(keys) ==
    IF Len(keys) >= KEY_HISTORY_LENGTH THEN TrimHistory(Tail(keys)) ELSE keys

\* a handler with the two connectivity flags exchanged
SyncMessageSwapped(state, message) ==
    CASE message.type = "Input" ->
            [state EXCEPT !.keys = Append(TrimHistory(state.keys), message.key)]
      [] message.type = "Connected" -> [state EXCEPT !.connected = FALSE]
      [] message.type = "Disconnected" -> [state EXCEPT !.connected = TRUE]

\* input_state after sync_keys handled one received message
SyncMessage(state, message) ==
    CASE message.type = "Input" ->
            [state EXCEPT !.keys = Append(TrimHistory(state.keys), message.key)]
      [] message.type = "Connected" -> [state EXCEPT !.connected = TRUE]
      [] message.type = "Disconnected" -> [state EXCEPT !.connected = FALSE]

\* a handler that writes the key event of a message twice
SyncEventsTwice(message) ==
    IF message.type = "Input" THEN << message.key, message.key >> ELSE <<>>

\* a handler that records the key in the history but writes no key event
SyncEventsNone(message) == <<>>

\* the key events sync_keys writes for one received message
SyncEvents(message) ==
    IF message.type = "Input" THEN << message.key >> ELSE <<>>

\* input_state after handling every message of a sequence in order
RECURSIVE SyncAll(_, _)
SyncAll(state, messages) ==
    IF messages = <<>> THEN state
    ELSE SyncAll(SyncMessage(state, Head(messages)), Tail(messages))

\* the key events written for every message of a sequence
RECURSIVE SyncAllEvents(_)
SyncAllEvents(messages) ==
    IF messages = <<>> THEN <<>>
    ELSE SyncEvents(Head(messages)) \o SyncAllEvents(Tail(messages))

\* a sync_keys that receives until the channel is empty (while let in place
\* of if let)
sync_keys_until_empty ==
    /\ "sync_keys" \notin ran
    /\ ran' = ran \cup {"sync_keys"}
    /\ channel' = <<>>
    /\ received' = received \o channel
    /\ input_state' = SyncAll(input_state, channel)
    /\ unread' = unread \o SyncAllEvents(channel)
    /\ broadcast' = broadcast \o SyncAllEvents(channel)
    /\ UNCHANGED <<judged, nframes, sent>>
    /\ UNCHANGED game_vars
    /\ UNCHANGED <<delta, clicks, frame_advance>>
    /\ UNCHANGED device_vars

\* system sync_keys: one try_recv per frame
sync_keys ==
    /\ "sync_keys" \notin ran
    /\ ran' = ran \cup {"sync_keys"}
    /\ IF channel = <<>>
       THEN UNCHANGED <<channel, input_state, unread, broadcast, received>>
       ELSE /\ channel' = Tail(channel)
            /\ received' = Append(received, Head(channel))
            /\ input_state' = SyncMessage(input_state, Head(channel))
            /\ unread' = unread \o SyncEvents(Head(channel))
            /\ broadcast' = broadcast \o SyncEvents(Head(channel))
    /\ UNCHANGED <<judged, nframes, sent>>
    /\ UNCHANGED game_vars
    /\ UNCHANGED <<delta, clicks, frame_advance>>
    /\ UNCHANGED device_vars

(* ------------------- game.rs: spawn_music_timeline -------------------- *)
get_octave(current_octave) == (3 - current_octave) * 12

\* current_item.note - (get_octave(octave) as u8), in 8 bits
RealIndex(note, current_octave) ==
    (note - (get_octave(current_octave) % 256)) % 256

\* white keys of KEY_ORDER before real_index
NumWhiteKeys(real_index) ==
    Cardinality({i \in 1..Len(KEY_ORDER) : i - 1 < real_index /\ KEY_ORDER[i] = 0})

\* position_x for a real_index, in position units
LanePositionX(real_index) ==
    LET key_type_id == KEY_ORDER[(real_index % 12) + 1]
    IN  IF key_type_id = 0
        THEN NumWhiteKeys(real_index) * PosScale
        ELSE NumWhiteKeys(real_index) * PosScale - PosScale \div 2

\* position_x of a spawned note, in position units
NotePositionX(note, current_octave) ==
    LanePositionX(RealIndex(note, current_octave))

\* the u8 subtraction current_item.note - octave_offset goes below zero: a
\* build with overflow checks panics there, one without them wraps
RealIndexOverflows(note, current_octave) ==
    note < get_octave(current_octave) % 256

\* spawn_piano: white_key_offset when the loop reaches key `index`
WhiteKeyOffset(index) ==
    Cardinality({i \in 0..(index - 1) : KEY_ORDER[(i % 12) + 1] = 0})

\* spawn_piano: the x of piano key `index`, in position units
PianoPositionX(index) ==
    IF KEY_ORDER[(index % 12) + 1] = 0
    THEN WhiteKeyOffset(index) * PosScale
    ELSE WhiteKeyOffset(index) * PosScale - PosScale \div 2

\* the Entity id a Commands::spawn reserves: one no live or pending entity has
FreeId ==
    LET used == {n.id : n \in notes \cup spawned}
    IN  CHOOSE i \in 1..(Cardinality(used) + 1) :
            i \notin used /\ \A j \in 1..(i - 1) : j \in used

\* the bundle spawned for a chart item
SpawnedNote(id, item, current_octave) ==
    [id |-> id, key |-> item.note, time |-> item.time,
     x |-> NotePositionX(item.note, current_octave),
     y |-> TIMELINE_TOP * PosScale]

\* a spawn that does not wait for the clock
SpawnDueAtOnce(ts) == ~ts.complete

\* the guard of the spawn: not complete and the item at current is due
SpawnDue(ts) ==
    /\ ~ts.complete
    /\ ts.timer.elapsed >= MUSIC_TIMELINE[ts.current + 1].time

\* a cursor that wraps to the first chart item after the last spawn
AdvanceCursorWrapping(ts) ==
    IF Len(MUSIC_TIMELINE) > ts.current + 1
    THEN [ts EXCEPT !.current = ts.current + 1]
    ELSE [ts EXCEPT !.current = 0, !.complete = TRUE]

\* a cursor that moves past the last chart item
AdvanceCursorPastEnd(ts) ==
    [ts EXCEPT !.current = ts.current + 1,
               !.complete = (Len(MUSIC_TIMELINE) <= ts.current + 1)]

\* the cursor after a spawn
AdvanceCursor(ts) ==
    IF Len(MUSIC_TIMELINE) > ts.current + 1
    THEN [ts EXCEPT !.current = ts.current + 1]
    ELSE [ts EXCEPT !.complete = TRUE]

spawn_music_timeline ==
    /\ "spawn_music_timeline" \notin ran
    /\ ran' = ran \cup {"spawn_music_timeline"}
    /\ IF SpawnDue(timeline_state)
       THEN \/ /\ spawned' = spawned \cup
                       {SpawnedNote(FreeId, MUSIC_TIMELINE[timeline_state.current + 1],
                                    input_state.octave)}
               /\ timeline_state' = AdvanceCursor(timeline_state)
               /\ UNCHANGED panicked
            \/ /\ RealIndexOverflows(MUSIC_TIMELINE[timeline_state.current + 1].note,
                                      input_state.octave)
               /\ panicked' = TRUE
               /\ UNCHANGED <<spawned, timeline_state>>
       ELSE UNCHANGED <<spawned, timeline_state, panicked>>
    /\ UNCHANGED <<game_state, notes, despawned>>
    /\ UNCHANGED bridge_vars
    /\ UNCHANGED <<delta, clicks, frame_advance>>
    /\ UNCHANGED <<app_state, select_events, available_ports, device_ports,
                   connection, link, attempts, nselects, select_run>>

(* ------------------ game.rs: animate_music_timeline ------------------- *)
\* a height that moves one position unit per second, without the
\* TIMELINE_TOP / TIMELINE_LENGTH factor
NotePositionYUnscaled(start_time, current_time) ==
    TIMELINE_TOP * PosScale
        + ((start_time - current_time) * PosScale) \div TimeScale

\* TIMELINE_TOP + (start_time - current_time) * TIMELINE_TOP / TIMELINE_LENGTH
NotePositionY(start_time, current_time) ==
    TIMELINE_TOP * PosScale
        + ((start_time - current_time) * TIMELINE_TOP * PosScale)
              \div (TIMELINE_LENGTH * TimeScale)

animate_music_timeline ==
    /\ "animate_music_timeline" \notin ran
    /\ ran' = ran \cup {"animate_music_timeline"}
    /\ timeline_state' =
           [timeline_state EXCEPT !.timer = TimerTick(timeline_state.timer, delta)]
    /\ notes' = {[n EXCEPT !.y = NotePositionY(n.time, timeline_state'.timer.elapsed)]
                     : n \in notes}
    /\ frame_advance' = frame_advance
           + (timeline_state'.timer.elapsed - timeline_state.timer.elapsed)
    /\ UNCHANGED <<game_state, spawned, despawned>>
    /\ UNCHANGED bridge_vars
    /\ UNCHANGED <<delta, clicks>>
    /\ UNCHANGED device_vars

(* ----------------- game.rs: check_timeline_collisions ----------------- *)
\* a conversion that rounds num/den to the nearest integer, halves away from zero
RoundToI32(num, den) ==
    IF num >= 0 THEN (2 * num + den) \div (2 * den)
    ELSE -((2 * (-num) + den) \div (2 * den))

\* `as i32` of the f32 value num/den: truncation toward zero
TruncToI32(num, den) ==
    IF num >= 0 THEN num \div den ELSE -((-num) \div den)

\* mistake_cost for a note at height y (position units)
MistakeCost(y) ==
    LET cost == TruncToI32(INITIAL_SCORE * (WHITE_KEY_HEIGHT - y),
                           MAX_MISTAKE_DISTANCE * PosScale)
    IN  IF cost < 0 THEN 0 ELSE cost

\* the score added for a judged note at height y
NoteScore(y) == INITIAL_SCORE - MistakeCost(y)

\* a judgement without the strike-line gate
InTimeAlways(y) == TRUE

\* if transform.translation.y <= WHITE_KEY_HEIGHT
InTime(y) == y <= WHITE_KEY_HEIGHT

\* a judgement that ignores the lane of the key event
JudgedAnyLane(key, live) == {n \in live : InTime(n.y)}

\* the notes one key event scores and despawns
Judged(key, live) == {n \in live : n.key = key.id /\ InTime(n.y)}

\* the score added for the notes one key event hits
RECURSIVE SumScores(_)
SumScores(hit) ==
    IF hit = {} THEN 0
    ELSE LET n == CHOOSE m \in hit : TRUE
         IN  NoteScore(n.y) + SumScores(hit \ {n})

\* the score added by the loop over the key events read in one run
RECURSIVE EventsScore(_, _)
EventsScore(events, live) ==
    IF events = <<>> THEN 0
    ELSE SumScores(Judged(Head(events), live)) + EventsScore(Tail(events), live)

\* the entities the loop despawns
EventsDespawn(events, live) ==
    UNION {{n.id : n \in Judged(events[i], live)} : i \in 1..Len(events)}

check_timeline_collisions ==
    /\ "check_timeline_collisions" \notin ran
    /\ ran' = ran \cup {"check_timeline_collisions"}
    /\ game_state' =
           [game_state EXCEPT !.score = game_state.score + EventsScore(unread, notes)]
    /\ despawned' = despawned \cup EventsDespawn(unread, notes)
    /\ unread' = <<>>
    /\ judged' = unread
    /\ UNCHANGED <<timeline_state, notes, spawned>>
    /\ UNCHANGED <<channel, input_state, broadcast, nframes, sent, received>>
    /\ UNCHANGED <<delta, clicks, frame_advance>>
    /\ UNCHANGED device_vars

(* --------------- game.rs: clear_complete_timeline_notes --------------- *)
\* a despawn threshold at the strike line in place of the timeline bottom
MissedAtStrikeLine(live) == {n \in live : n.y <= WHITE_KEY_HEIGHT}

Missed(live) == {n \in live : n.y <= TIMELINE_BOTTOM * PosScale}

clear_complete_timeline_notes ==
    /\ "clear_complete_timeline_notes" \notin ran
    /\ ran' = ran \cup {"clear_complete_timeline_notes"}
    /\ despawned' = despawned \cup {n.id : n \in Missed(notes)}
    /\ UNCHANGED <<timeline_state, game_state, notes, spawned>>
    /\ UNCHANGED bridge_vars
    /\ UNCHANGED <<delta, clicks, frame_advance>>
    /\ UNCHANGED device_vars

(* ----------------------- game.rs: debug_game_ui ----------------------- *)
\* the head of the system: tick the timer, a finished timer ends the session
DebugTick(ts, d) ==
    LET t == TimerTick(ts.timer, d)
    IN  IF t.finished
        THEN [ts EXCEPT !.timer = t, !.complete = TRUE, !.playing = FALSE]
        ELSE [ts EXCEPT !.timer = t]

\* which buttons the window shows for the state it draws
ButtonShown(ts, button) ==
    CASE button = "Start" -> ~ts.playing
      [] button = "Unpause" -> ~ts.playing /\ ts.timer.paused
      [] button = "Pause" -> ts.playing
      [] button = "Reset" -> TRUE

StartClicked(ts) ==
    [ts EXCEPT !.complete = FALSE, !.playing = TRUE,
               !.timer = TimerNew(TIMELINE_TOTAL_TIME * TimeScale)]

UnpauseClicked(ts) == [ts EXCEPT !.timer = TimerUnpause(ts.timer)]

PauseClicked(ts) == [ts EXCEPT !.playing = FALSE, !.timer = TimerPause(ts.timer)]

\* a Reset that pauses the timer without rewinding it
ResetKeepsClock(ts) ==
    [ts EXCEPT !.playing = FALSE, !.current = 0, !.timer = TimerPause(ts.timer)]

ResetClicked(ts) ==
    [ts EXCEPT !.playing = FALSE, !.current = 0,
               !.timer = TimerPause(TimerReset(ts.timer))]

\* game_state.score = 0 of the Reset button
ResetScore(gs) == [gs EXCEPT !.score = 0]

\* the live notes after the Reset button
ResetNotes(live) == live

\* one run of debug_game_ui in which `button` is clicked
DebugGameUi(button, after) ==
    /\ "debug_game_ui" \notin ran
    /\ nframes + Len(clicks) < MaxInputs
    /\ ButtonShown(DebugTick(timeline_state, delta), button)
    /\ ran' = ran \cup {"debug_game_ui"}
    /\ timeline_state' = after
    /\ clicks' = Append(clicks, button)
    /\ frame_advance' =
           IF button \in {"Start", "Reset"} THEN 0
           ELSE frame_advance
                    + (DebugTick(timeline_state, delta).timer.elapsed
                           - timeline_state.timer.elapsed)
    /\ UNCHANGED delta
    /\ UNCHANGED device_vars

\* debug_game_ui with no button clicked
debug_game_ui ==
    /\ "debug_game_ui" \notin ran
    /\ ran' = ran \cup {"debug_game_ui"}
    /\ timeline_state' = DebugTick(timeline_state, delta)
    /\ frame_advance' = frame_advance
           + (timeline_state'.timer.elapsed - timeline_state.timer.elapsed)
    /\ UNCHANGED <<game_state, notes, spawned, despawned>>
    /\ UNCHANGED bridge_vars
    /\ UNCHANGED <<delta, clicks>>
    /\ UNCHANGED device_vars

start ==
    /\ DebugGameUi("Start", StartClicked(DebugTick(timeline_state, delta)))
    /\ UNCHANGED <<game_state, notes, spawned, despawned>>
    /\ UNCHANGED bridge_vars

unpause ==
    /\ DebugGameUi("Unpause", UnpauseClicked(DebugTick(timeline_state, delta)))
    /\ UNCHANGED <<game_state, notes, spawned, despawned>>
    /\ UNCHANGED bridge_vars

pause ==
    /\ DebugGameUi("Pause", PauseClicked(DebugTick(timeline_state, delta)))
    /\ UNCHANGED <<game_state, notes, spawned, despawned>>
    /\ UNCHANGED bridge_vars

reset ==
    /\ DebugGameUi("Reset", ResetClicked(DebugTick(timeline_state, delta)))
    /\ game_state' = ResetScore(game_state)
    /\ notes' = ResetNotes(notes)
    /\ UNCHANGED <<spawned, despawned>>
    /\ UNCHANGED bridge_vars

(* ------------------------- the frame boundary ------------------------- *)
\* apply_system_buffers after the Update stage, then the next frame begins
end_frame ==
    /\ ran = Systems
    /\ notes' = {n \in notes : n.id \notin despawned} \cup spawned
    /\ spawned' = {}
    /\ despawned' = {}
    /\ ran' = {}
    /\ delta' \in TickDeltas
    /\ frame_advance' = 0
    /\ UNCHANGED <<timeline_state, game_state, clicks>>
    /\ UNCHANGED bridge_vars
    /\ UNCHANGED device_vars

(* --------------------------- specifications --------------------------- *)
\* the device side of the app on the game screen: one port, selected and
\* connected, the connection stored and its device attached
\* select_device is not running: no iterator, no connection_result and no
\* connection in the making
SelectIdle == [pc |-> "idle", pending |-> <<>>, result |-> <<>>, fresh |-> <<>>]

DeviceConnected ==
    /\ app_state = [current |-> "Game", next |-> "Game"]
    /\ select_events = <<>>
    /\ available_ports = 1
    /\ device_ports = 1
    /\ connection = <<0>>
    /\ link = "open"
    /\ attempts = <<"connected">>
    /\ nselects = 1
    /\ panicked = FALSE
    /\ select_run = SelectIdle

\* The app as it enters AppState::Game: the resources are as the plugins
\* inserted them, and device_select_redirect has seen connected = true.
Init ==
    /\ channel = <<>>
    /\ input_state = [connected |-> TRUE, keys |-> <<>>, octave |-> 0]
    /\ unread = <<>>
    /\ judged = <<>>
    /\ broadcast = <<>>
    /\ nframes = 0
    /\ sent = <<>>
    /\ received = <<>>
    /\ DeviceConnected
    /\ timeline_state = [current |-> 0, playing |-> FALSE, complete |-> FALSE,
                         timer |-> TimerNew(0)]
    /\ game_state = [score |-> 0]
    /\ notes = {}
    /\ spawned = {}
    /\ despawned = {}
    /\ ran = {}
    /\ delta \in TickDeltas
    /\ frame_advance = 0
    /\ clicks = <<>>

GameCallback == \E message \in GameFrames : Callback(message, MaxInputs)

BridgeCallback == \E message \in BridgeFrames : Callback(message, MaxBridgeFrames)

Next ==
    \/ GameCallback
    \/ sync_keys
    \/ spawn_music_timeline
    \/ animate_music_timeline
    \/ check_timeline_collisions
    \/ clear_complete_timeline_notes
    \/ debug_game_ui
    \/ start
    \/ unpause
    \/ pause
    \/ reset
    \/ end_frame

Spec == Init /\ [][Next]_vars

\* the bridge under a long run of key events, the debug window left alone
NextBridge ==
    \/ BridgeCallback
    \/ sync_keys
    \/ spawn_music_timeline
    \/ animate_music_timeline
    \/ check_timeline_collisions
    \/ clear_complete_timeline_notes
    \/ debug_game_ui
    \/ end_frame

SpecBridge == Init /\ [][NextBridge]_vars

\* a session driven from the debug window alone, no key pressed
NextSession ==
    \/ sync_keys
    \/ spawn_music_timeline
    \/ animate_music_timeline
    \/ check_timeline_collisions
    \/ clear_complete_timeline_notes
    \/ debug_game_ui
    \/ start
    \/ unpause
    \/ pause
    \/ reset
    \/ end_frame

SpecSession == Init /\ [][NextSession]_vars

\* the steps the scheduler takes by itself: the systems of a frame without
\* a click, and the frame boundary
SessionFrame ==
    \/ sync_keys
    \/ spawn_music_timeline
    \/ animate_music_timeline
    \/ check_timeline_collisions
    \/ clear_complete_timeline_notes
    \/ debug_game_ui
    \/ end_frame

\* the scheduler runs every system of a frame and then the next frame
SpecSessionLive == SpecSession /\ WF_vars(SessionFrame)

\* the bridge under a long run of key events and a scheduler that keeps
\* the frames running
SpecBridgeLive == SpecBridge /\ WF_vars(SessionFrame)

(* ------------- the game under every setting of the octave ------------- *)
\* MidiInputState.octave: "ranges from -3 to 3"
Octaves == (-3)..3

\* the app as it enters AppState::Game, the octave at one of its settings
InitOctave ==
    \E octave \in Octaves :
        /\ channel = <<>>
        /\ input_state = [connected |-> TRUE, keys |-> <<>>, octave |-> octave]
        /\ unread = <<>>
        /\ judged = <<>>
        /\ broadcast = <<>>
        /\ nframes = 0
        /\ sent = <<>>
        /\ received = <<>>
        /\ DeviceConnected
        /\ timeline_state = [current |-> 0, playing |-> FALSE, complete |-> FALSE,
                             timer |-> TimerNew(0)]
        /\ game_state = [score |-> 0]
        /\ notes = {}
        /\ spawned = {}
        /\ despawned = {}
        /\ ran = {}
        /\ delta \in TickDeltas
        /\ frame_advance = 0
        /\ clicks = <<>>

\* a panic ends the app and all its systems
OctaveSyncKeys == ~panicked /\ sync_keys
OctaveSpawn == ~panicked /\ spawn_music_timeline
OctaveAnimate == ~panicked /\ animate_music_timeline
OctaveCollisions == ~panicked /\ check_timeline_collisions
OctaveClear == ~panicked /\ clear_complete_timeline_notes
OctaveDebugUi == ~panicked /\ debug_game_ui
OctaveStart == ~panicked /\ start
OctaveEndFrame == ~panicked /\ end_frame

NextOctave ==
    \/ OctaveSyncKeys
    \/ OctaveSpawn
    \/ OctaveAnimate
    \/ OctaveCollisions
    \/ OctaveClear
    \/ OctaveDebugUi
    \/ OctaveStart
    \/ OctaveEndFrame

SpecOctave == InitOctave /\ [][NextOctave]_vars

(* ------------- check_timeline_collisions over clock values ------------- *)
\* the clock values at which the first chart item is live: from just after
\* its time until a second after it passes the bottom of the timeline
JudgeClocks ==
    (MUSIC_TIMELINE[1].time + 1) ..
        (MUSIC_TIMELINE[1].time + (TIMELINE_LENGTH + 1) * TimeScale)

\* the chart items spawn_music_timeline has spawned by clock value t
SpawnedBy(t) == {i \in 1..Len(MUSIC_TIMELINE) : MUSIC_TIMELINE[i].time < t}

\* those items as animate_music_timeline has placed them at clock value t
NotesAt(t) ==
    {[SpawnedNote(i, MUSIC_TIMELINE[i], 0)
        EXCEPT !.y = NotePositionY(MUSIC_TIMELINE[i].time, t)] : i \in SpawnedBy(t)}

\* the notes of an earlier session that ran past the last chart item and
\* was ended by Reset, which leaves the notes alone: animate_music_timeline
\* places them by the new clock, and those above the bottom are still live
KeptNotes(t) ==
    {n \in {[SpawnedNote(Len(MUSIC_TIMELINE) + i, MUSIC_TIMELINE[i], 0)
                EXCEPT !.y = NotePositionY(MUSIC_TIMELINE[i].time, t)] :
                    i \in 1..Len(MUSIC_TIMELINE)} : Missed({n}) = {}}

\* a playing session at clock value t in the frame where sync_keys has
\* delivered one key event and animate_music_timeline has moved the notes;
\* the session is the first one, or one started after a Reset
InitJudge ==
    \E t \in JudgeClocks, message \in JudgeFrames, restarted \in BOOLEAN :
        /\ channel = <<>>
        /\ input_state = [connected |-> TRUE, keys |-> <<InputKey(1, message)>>,
                          octave |-> 0]
        /\ unread = <<InputKey(1, message)>>
        /\ judged = <<>>
        /\ broadcast = <<InputKey(1, message)>>
        /\ nframes = 1
        /\ sent = <<InputKey(1, message)>>
        /\ received = <<MsgInput(InputKey(1, message))>>
        /\ DeviceConnected
        /\ timeline_state =
               [current |-> IF Cardinality(SpawnedBy(t)) < Len(MUSIC_TIMELINE)
                            THEN Cardinality(SpawnedBy(t))
                            ELSE Len(MUSIC_TIMELINE) - 1,
                playing |-> TRUE,
                complete |-> Cardinality(SpawnedBy(t)) = Len(MUSIC_TIMELINE),
                timer |-> [TimerNew(TIMELINE_TOTAL_TIME * TimeScale)
                             EXCEPT !.elapsed = t]]
        /\ game_state = [score |-> 0]
        /\ notes = NotesAt(t) \cup (IF restarted THEN KeptNotes(t) ELSE {})
        /\ spawned = {}
        /\ despawned = {}
        /\ ran = {"sync_keys", "spawn_music_timeline", "animate_music_timeline"}
        /\ delta \in TickDeltas
        /\ frame_advance = (IF t < delta THEN t ELSE delta)
        /\ clicks = IF restarted THEN <<"Start", "Reset", "Start">> ELSE <<"Start">>

NextJudge == check_timeline_collisions

SpecJudge == InitJudge /\ [][NextJudge]_vars

(* ----------------- the callback over raw frames of any shape ----------------- *)
FrameCallback == \E message \in RawFrames : Callback(message, MaxRawFrames)

NextFrames ==
    \/ FrameCallback
    \/ sync_keys
    \/ spawn_music_timeline
    \/ animate_music_timeline
    \/ check_timeline_collisions
    \/ clear_complete_timeline_notes
    \/ debug_game_ui
    \/ end_frame

SpecFrames == Init /\ [][NextFrames]_vars

(* ------------- midi.rs, device_select.rs: device selection ------------- *)
\* the systems of a frame on the device selection screen, and those of
\* MidiInputPlugin that run on every screen
ConnectSystems(app) ==
    IF app.current = "DeviceSelect"
    THEN {"discover_devices", "sync_keys", "select_device", "device_select_ui",
          "device_select_redirect"}
    ELSE {"discover_devices", "sync_keys", "select_device"}

\* system discover_devices: selected_port is never set, so the list is
\* refreshed from the driver in every frame
discover_devices ==
    /\ ~panicked
    /\ "discover_devices" \notin ran
    /\ ran' = ran \cup {"discover_devices"}
    /\ available_ports' = device_ports
    /\ UNCHANGED <<app_state, select_events, device_ports, connection, link,
                   attempts, nselects, panicked, select_run>>
    /\ UNCHANGED bridge_vars
    /\ UNCHANGED game_vars
    /\ UNCHANGED <<delta, clicks, frame_advance>>

\* system device_select_ui in a frame without a click
device_select_ui ==
    /\ ~panicked
    /\ app_state.current = "DeviceSelect"
    /\ "device_select_ui" \notin ran
    /\ ran' = ran \cup {"device_select_ui"}
    /\ UNCHANGED device_vars
    /\ UNCHANGED bridge_vars
    /\ UNCHANGED game_vars
    /\ UNCHANGED <<delta, clicks, frame_advance>>

\* system device_select_ui in a frame where the button of a listed port is
\* clicked: SelectDeviceEvent(index)
select_port ==
    /\ ~panicked
    /\ app_state.current = "DeviceSelect"
    /\ "device_select_ui" \notin ran
    /\ nselects < MaxSelects
    /\ ran' = ran \cup {"device_select_ui"}
    /\ \E index \in 0..(available_ports - 1) :
           /\ select_events' = Append(select_events, index)
           /\ nselects' = nselects + 1
    /\ UNCHANGED <<app_state, available_ports, device_ports, connection, link,
                   attempts, panicked, select_run>>
    /\ UNCHANGED bridge_vars
    /\ UNCHANGED game_vars
    /\ UNCHANGED <<delta, clicks, frame_advance>>

\* an attempt that connects to whatever index is asked for
AttemptAnyPort(index, ports, driver) ==
    CASE driver = "no adapter" -> "panic"
      [] driver = "connect error" -> "connect error"
      [] OTHER -> "connected"

\* what the loop body of select_device does for one event: ports is the
\* length of input.ports(), driver is how the driver answers this attempt
Attempt(index, ports, driver) ==
    CASE driver = "no adapter" -> "panic"
      [] index >= ports -> "invalid port"
      [] driver = "connect error" -> "connect error"
      [] OTHER -> "connected"

\* the attempts of a run of select_device, up to and including a panic
RECURSIVE Attempts(_, _, _)
Attempts(events, ports, drivers) ==
    IF events = <<>> THEN <<>>
    ELSE LET first == Attempt(Head(events), ports, Head(drivers))
         IN  IF first = "panic" THEN <<first>>
             ELSE <<first>> \o Attempts(Tail(events), ports, Tail(drivers))

\* the Connected messages a run sends: one per successful connect
ConnectedSent(outcomes) ==
    [i \in 1..Cardinality({j \in 1..Len(outcomes) : outcomes[j] = "connected"})
        |-> MsgConnected]

\* connection_result after the loop: the last successful connect, if any
ConnectionResult(events, outcomes) ==
    LET ok == {j \in 1..Len(outcomes) : outcomes[j] = "connected"}
    IN  IF ok = {} THEN <<>>
        ELSE <<events[CHOOSE j \in ok : \A k \in ok : k <= j]>>

\* system select_device
select_device ==
    /\ ~panicked
    /\ "select_device" \notin ran
    /\ ran' = ran \cup {"select_device"}
    /\ \E drivers \in [1..Len(select_events) -> {"ok", "connect error", "no adapter"}] :
           LET outcomes == Attempts(select_events, device_ports, drivers)
               paniced == \E j \in 1..Len(outcomes) : outcomes[j] = "panic"
               result == ConnectionResult(select_events, outcomes)
           IN  /\ attempts' = outcomes
               /\ channel' = channel \o ConnectedSent(outcomes)
               /\ panicked' = paniced
               /\ IF paniced \/ result = <<>>
                  THEN UNCHANGED <<connection, link>>
                  ELSE connection' = result /\ link' = "open"
    /\ select_events' = <<>>
    /\ UNCHANGED <<app_state, available_ports, device_ports, nselects, select_run>>
    /\ UNCHANGED <<input_state, unread, judged, broadcast, nframes, sent, received>>
    /\ UNCHANGED game_vars
    /\ UNCHANGED <<delta, clicks, frame_advance>>

\* system device_select_redirect
device_select_redirect ==
    /\ ~panicked
    /\ app_state.current = "DeviceSelect"
    /\ "device_select_redirect" \notin ran
    /\ ran' = ran \cup {"device_select_redirect"}
    /\ app_state' = IF input_state.connected
                    THEN [app_state EXCEPT !.next = "Game"]
                    ELSE app_state
    /\ UNCHANGED <<select_events, available_ports, device_ports, connection, link,
                   attempts, nselects, panicked, select_run>>
    /\ UNCHANGED bridge_vars
    /\ UNCHANGED game_vars
    /\ UNCHANGED <<delta, clicks, frame_advance>>

\* the frame boundary: the state transition set in this frame is applied
end_connect_frame ==
    /\ ~panicked
    /\ ran = ConnectSystems(app_state)
    /\ ran' = {}
    /\ app_state' = [current |-> app_state.next, next |-> app_state.next]
    /\ UNCHANGED <<select_events, available_ports, device_ports, connection, link,
                   attempts, nselects, panicked, select_run>>
    /\ UNCHANGED bridge_vars
    /\ UNCHANGED game_vars
    /\ UNCHANGED <<delta, clicks, frame_advance>>

\* a MIDI device is attached: the driver reports one more port
plug ==
    /\ ~panicked
    /\ device_ports < MaxPorts
    /\ device_ports' = device_ports + 1
    /\ UNCHANGED <<app_state, select_events, available_ports, connection, link,
                   attempts, nselects, panicked, select_run>>
    /\ UNCHANGED bridge_vars
    /\ UNCHANGED game_vars
    /\ UNCHANGED frame_vars

\* the device of the last port is detached; an open connection to it is lost
unplug ==
    /\ ~panicked
    /\ device_ports > 0
    /\ device_ports' = device_ports - 1
    /\ link' = IF link = "open" /\ connection = <<device_ports - 1>>
               THEN "lost" ELSE link
    /\ UNCHANGED <<app_state, select_events, available_ports, connection,
                   attempts, nselects, panicked, select_run>>
    /\ UNCHANGED bridge_vars
    /\ UNCHANGED game_vars
    /\ UNCHANGED frame_vars

\* the callback of the open connection
ConnectCallback ==
    /\ ~panicked
    /\ link = "open"
    /\ \E message \in BridgeFrames : Callback(message, MaxConnectFrames)

\* the app on the device selection screen, nothing selected yet
InitConnect ==
    /\ channel = <<>>
    /\ input_state = [connected |-> FALSE, keys |-> <<>>, octave |-> 0]
    /\ unread = <<>>
    /\ judged = <<>>
    /\ broadcast = <<>>
    /\ nframes = 0
    /\ sent = <<>>
    /\ received = <<>>
    /\ app_state = [current |-> "DeviceSelect", next |-> "DeviceSelect"]
    /\ select_events = <<>>
    /\ available_ports = 0
    /\ device_ports \in 0..MaxPorts
    /\ connection = <<>>
    /\ link = "none"
    /\ attempts = <<>>
    /\ nselects = 0
    /\ panicked = FALSE
    /\ select_run = SelectIdle
    /\ timeline_state = [current |-> 0, playing |-> FALSE, complete |-> FALSE,
                         timer |-> TimerNew(0)]
    /\ game_state = [score |-> 0]
    /\ notes = {}
    /\ spawned = {}
    /\ despawned = {}
    /\ ran = {}
    /\ delta \in TickDeltas
    /\ frame_advance = 0
    /\ clicks = <<>>

\* sync_keys while the app runs: a panic ends the app and all its systems
ConnectSyncKeys == ~panicked /\ sync_keys

\* the steps the scheduler takes by itself: the systems of a frame without
\* a click, and the frame boundary
ConnectFrame ==
    \/ discover_devices
    \/ ConnectSyncKeys
    \/ select_device
    \/ device_select_ui
    \/ device_select_redirect
    \/ end_connect_frame

NextConnect ==
    \/ discover_devices
    \/ ConnectSyncKeys
    \/ select_device
    \/ device_select_ui
    \/ select_port
    \/ device_select_redirect
    \/ end_connect_frame
    \/ ConnectCallback
    \/ plug
    \/ unplug

SpecConnect == InitConnect /\ [][NextConnect]_vars

\* the scheduler runs every system of a frame and then the next frame
SpecConnectLive == SpecConnect /\ WF_vars(ConnectFrame)

(* -------- midi.rs: select_device step by step, the driver beside it -------- *)
\* The driver delivers frames on its own thread, so what it can do while
\* select_device runs depends on the order of the statements of the system.
\* pc is "loop" at the head of the for loop, "connect" inside input.connect,
\* "assign" between its Ok return and the assignment to connection_result.

\* the ports of the MidiInputConnection values alive now: the stored one,
\* the one in connection_result and the one connect has just returned
AliveConnections ==
    connection \o select_run.result
        \o (IF select_run.pc = "assign" THEN select_run.fresh ELSE <<>>)

\* the systems run one after another: none runs inside select_device
SelectNotRunning == select_run.pc = "idle"

\* select_device is entered: the reader hands over the events of the frame
select_begin ==
    /\ ~panicked
    /\ SelectNotRunning
    /\ "select_device" \notin ran
    /\ attempts' = <<>>
    /\ select_events' = <<>>
    /\ IF select_events = <<>>
       THEN /\ ran' = ran \cup {"select_device"}
            /\ UNCHANGED select_run
       ELSE /\ select_run' = [pc |-> "loop", pending |-> select_events,
                              result |-> <<>>, fresh |-> <<>>]
            /\ UNCHANGED ran
    /\ UNCHANGED <<app_state, available_ports, device_ports, connection, link,
                   nselects, panicked>>
    /\ UNCHANGED bridge_vars
    /\ UNCHANGED game_vars
    /\ UNCHANGED <<delta, clicks, frame_advance>>

\* the loop body up to the call of input.connect
select_attempt ==
    /\ ~panicked
    /\ select_run.pc = "loop"
    /\ select_run.pending # <<>>
    /\ \E adapter \in {"ok", "no adapter"} :
           LET index == Head(select_run.pending)
               outcome == Attempt(index, device_ports, adapter)
           IN  CASE outcome = "panic" ->
                        /\ panicked' = TRUE
                        /\ attempts' = Append(attempts, "panic")
                        /\ UNCHANGED select_run
                 [] outcome = "invalid port" ->
                        /\ attempts' = Append(attempts, "invalid port")
                        /\ select_run' = [select_run EXCEPT
                                              !.pending = Tail(select_run.pending)]
                        /\ UNCHANGED panicked
                 [] OTHER ->
                        /\ select_run' = [select_run EXCEPT
                                              !.pc = "connect", !.fresh = <<index>>]
                        /\ UNCHANGED <<attempts, panicked>>
    /\ UNCHANGED <<app_state, select_events, available_ports, device_ports,
                   connection, link, nselects>>
    /\ UNCHANGED bridge_vars
    /\ UNCHANGED game_vars
    /\ UNCHANGED frame_vars

\* input.connect returns, with a connection or with an error; until it does
\* the system, and with it the frame, waits
connect_returns ==
    /\ ~panicked
    /\ select_run.pc = "connect"
    /\ \E answer \in {"ok", "connect error"} :
           IF answer = "ok"
           THEN /\ select_run' = [select_run EXCEPT !.pc = "assign"]
                /\ UNCHANGED attempts
           ELSE /\ select_run' = [select_run EXCEPT
                                      !.pc = "loop", !.fresh = <<>>,
                                      !.pending = Tail(select_run.pending)]
                /\ attempts' = Append(attempts, "connect error")
    /\ UNCHANGED <<app_state, select_events, available_ports, device_ports,
                   connection, link, nselects, panicked>>
    /\ UNCHANGED bridge_vars
    /\ UNCHANGED game_vars
    /\ UNCHANGED frame_vars

\* the Ok arm: Connected is sent, then the assignment to connection_result
\* drops the connection it held
select_assign ==
    /\ ~panicked
    /\ select_run.pc = "assign"
    /\ channel' = Append(channel, MsgConnected)
    /\ attempts' = Append(attempts, "connected")
    /\ select_run' = [pc |-> "loop", pending |-> Tail(select_run.pending),
                      result |-> select_run.fresh, fresh |-> <<>>]
    /\ UNCHANGED <<app_state, select_events, available_ports, device_ports,
                   connection, link, nselects, panicked>>
    /\ UNCHANGED <<input_state, unread, judged, broadcast, nframes, sent, received>>
    /\ UNCHANGED game_vars
    /\ UNCHANGED frame_vars

\* after the loop: insert_non_send_resource replaces, and so drops, the
\* stored connection
select_store ==
    /\ ~panicked
    /\ select_run.pc = "loop"
    /\ select_run.pending = <<>>
    /\ ran' = ran \cup {"select_device"}
    /\ select_run' = SelectIdle
    /\ IF select_run.result = <<>>
       THEN UNCHANGED <<connection, link>>
       ELSE /\ connection' = select_run.result
            /\ link' = IF select_run.result[1] < device_ports
                       THEN "open" ELSE "lost"
    /\ UNCHANGED <<app_state, select_events, available_ports, device_ports,
                   attempts, nselects, panicked>>
    /\ UNCHANGED bridge_vars
    /\ UNCHANGED game_vars
    /\ UNCHANGED <<delta, clicks, frame_advance>>

\* the callback of any connection that is alive
SwitchCallback ==
    /\ ~panicked
    /\ AliveConnections # <<>>
    /\ \E message \in BridgeFrames : Callback(message, MaxConnectFrames)

SwitchDiscover == SelectNotRunning /\ discover_devices
SwitchSyncKeys == SelectNotRunning /\ ~panicked /\ sync_keys
SwitchSelectUi == SelectNotRunning /\ device_select_ui
SwitchSelectPort == SelectNotRunning /\ select_port
SwitchRedirect == SelectNotRunning /\ device_select_redirect
SwitchEndFrame == SelectNotRunning /\ end_connect_frame

\* the steps of the thread that runs the frames, without a click
SwitchFrame ==
    \/ SwitchDiscover
    \/ SwitchSyncKeys
    \/ select_begin
    \/ select_attempt
    \/ select_assign
    \/ select_store
    \/ SwitchSelectUi
    \/ SwitchRedirect
    \/ SwitchEndFrame

NextSwitch ==
    \/ SwitchDiscover
    \/ SwitchSyncKeys
    \/ select_begin
    \/ select_attempt
    \/ connect_returns
    \/ select_assign
    \/ select_store
    \/ SwitchSelectUi
    \/ SwitchSelectPort
    \/ SwitchRedirect
    \/ SwitchEndFrame
    \/ SwitchCallback
    \/ plug
    \/ unplug

SpecSwitch == InitConnect /\ [][NextSwitch]_vars

\* the scheduler runs the systems and the frames; nothing makes the driver
\* return from a connect
SpecSwitchLive == SpecSwitch /\ WF_vars(SwitchFrame)

(* ------------------- sync_keys over channel contents ------------------- *)
\* the MidiResponse values a channel position can hold; stamp is the time
\* stamp of an Input at that position
PendingMessages(stamp) ==
    {MsgInput(InputKey(stamp, message)) : message \in BridgeFrames}
        \cup {MsgConnected, MsgDisconnected}

\* the number of Input messages among the first n of a sequence
InputCount(messages, n) ==
    Cardinality({i \in 1..n : messages[i].type = "Input"})

\* channel contents of up to MaxPending messages, the Inputs stamped in order
PendingChannels ==
    UNION {{c \in [1..n -> UNION {PendingMessages(k) : k \in 1..n}] :
               \A i \in 1..n :
                   c[i].type = "Input" => c[i].key.timestamp = InputCount(c, i)}
           : n \in 0..MaxPending}

\* the keys of the Input messages of a sequence, in order
RECURSIVE InputKeys(_)
InputKeys(messages) ==
    IF messages = <<>> THEN <<>>
    ELSE (IF Head(messages).type = "Input" THEN <<Head(messages).key>> ELSE <<>>)
             \o InputKeys(Tail(messages))

\* the game screen with any pending channel content and either value of
\* the connected flag, before the frame's systems run
InitSync ==
    \E c \in PendingChannels, flag \in BOOLEAN :
        /\ channel = c
        /\ input_state = [connected |-> flag, keys |-> <<>>, octave |-> 0]
        /\ unread = <<>>
        /\ judged = <<>>
        /\ broadcast = <<>>
        /\ nframes = InputCount(c, Len(c))
        /\ sent = InputKeys(c)
        /\ received = <<>>
        /\ DeviceConnected
        /\ timeline_state = [current |-> 0, playing |-> FALSE, complete |-> FALSE,
                             timer |-> TimerNew(0)]
        /\ game_state = [score |-> 0]
        /\ notes = {}
        /\ spawned = {}
        /\ despawned = {}
        /\ ran = {}
        /\ delta \in TickDeltas
        /\ frame_advance = 0
        /\ clicks = <<>>

NextSync ==
    \/ sync_keys
    \/ spawn_music_timeline
    \/ animate_music_timeline
    \/ check_timeline_collisions
    \/ clear_complete_timeline_notes
    \/ debug_game_ui
    \/ end_frame

SpecSync == InitSync /\ [][NextSync]_vars

(* ----------------------------- properties ----------------------------- *)
Min(a, b) == IF a < b THEN a ELSE b

\* the last n elements of a sequence
LastN(seq, n) == SubSeq(seq, Len(seq) - n + 1, Len(seq))

\* C1: the key history never holds more than KEY_HISTORY_LENGTH events, and
\* after n key events it holds exactly the last min(n, KEY_HISTORY_LENGTH)
\* of them in arrival order.
C1_RingBound ==
    /\ Len(input_state.keys) <= KEY_HISTORY_LENGTH
    /\ input_state.keys =
           LastN(broadcast, Min(Len(broadcast), KEY_HISTORY_LENGTH))

\* more key events have arrived than the history holds, and the history is full
C1_Witness ==
    /\ Len(broadcast) > KEY_HISTORY_LENGTH
    /\ Len(input_state.keys) = KEY_HISTORY_LENGTH
    /\ input_state.keys[1].timestamp = Len(broadcast) - KEY_HISTORY_LENGTH + 1

\* C2: whenever the session is complete, the cursor equals the chart length.
C2_CompleteImpliesAllSpawned ==
    timeline_state.complete => timeline_state.current = Len(MUSIC_TIMELINE)

\* C3: the cursor never decreases, except that a Reset sets it to 0.
C3_MonotonicCursor ==
    [][timeline_state'.current < timeline_state.current
           => (reset /\ timeline_state'.current = 0)]_vars

\* a Reset clicked after the cursor had advanced past the first chart item
C3_Witness ==
    /\ clicks # <<>>
    /\ clicks[Len(clicks)] = "Reset"
    /\ timeline_state.current = 0
    /\ \E n \in notes \cup spawned : n.time = MUSIC_TIMELINE[2].time

\* C4: the score is never negative.
C4_ScoreNonNegative == game_state.score >= 0

\* C5: a key event whose id matches a live note's key judges and despawns
\* that note wherever the note is on the timeline.
C5_NoEarlyGate ==
    [][check_timeline_collisions
           => \A i \in 1..Len(unread) : \A n \in notes :
                  n.key = unread[i].id => n.id \in despawned']_vars

\* C5 (as the code has it): a matching key event judges and despawns a live
\* note only when the note is at or below the strike line; a note above the
\* line is left alone, and a step whose matches are all above the line
\* leaves the score unchanged.
C5_EarlyGate ==
    [][check_timeline_collisions
           => /\ \A n \in notes :
                     n.y > WHITE_KEY_HEIGHT
                         => (n.id \in despawned' <=> n.id \in despawned)
              /\ \A i \in 1..Len(unread) : \A n \in notes :
                     (n.key = unread[i].id /\ n.y <= WHITE_KEY_HEIGHT)
                         => n.id \in despawned'
              /\ (\A i \in 1..Len(unread) : \A n \in notes :
                      n.key = unread[i].id => n.y > WHITE_KEY_HEIGHT)
                     => game_state' = game_state
              /\ notes' = notes]_vars

\* the collision system has just run on a key event that matches a live note
\* above the strike line, and the note is still live and not despawned
C5_Witness ==
    /\ "check_timeline_collisions" \in ran
    /\ judged # <<>>
    /\ \E n \in notes :
           /\ n.key = judged[1].id
           /\ n.y > WHITE_KEY_HEIGHT
           /\ n.id \notin despawned

\* C6: a Reset removes every live note.
C6_ResetClearsNotes == [][reset => notes' = {}]_vars

\* C7: a Reset clears the completion flag.
C7_ResetClearsComplete == [][reset => ~timeline_state'.complete]_vars

\* C8: a Reset sets the cursor to 0, the playing flag to false and the score
\* to 0, and leaves the session clock paused at 0.
C8_ResetToIdle ==
    [][reset => /\ timeline_state'.current = 0
                /\ ~timeline_state'.playing
                /\ game_state'.score = 0
                /\ timeline_state'.timer.paused
                /\ timeline_state'.timer.elapsed = 0]_vars

\* a Reset clicked in a started session with live notes has left the session idle
C8_Witness ==
    /\ clicks # <<>>
    /\ clicks[Len(clicks)] = "Reset"
    /\ notes # {}
    /\ timeline_state.timer.duration = TIMELINE_TOTAL_TIME * TimeScale
    /\ timeline_state.current = 0
    /\ ~timeline_state.playing
    /\ game_state.score = 0
    /\ timeline_state.timer.paused
    /\ timeline_state.timer.elapsed = 0

\* C9: after a step of animate_music_timeline every live note's height is
\* TIMELINE_TOP + (t0 - t) * TIMELINE_TOP / TIMELINE_LENGTH for its chart
\* time t0 and the clock value t, whatever pauses came before.
C9_PositionDeterminism ==
    [][animate_music_timeline
           => \A n \in notes' :
                  TIMELINE_LENGTH * TimeScale * (n.y - TIMELINE_TOP * PosScale)
                      = (n.time - timeline_state'.timer.elapsed)
                            * TIMELINE_TOP * PosScale]_vars

\* animate_music_timeline has just moved a live note below the top of the
\* timeline in a session that was paused and unpaused
C9_Witness ==
    /\ clicks = <<"Start", "Pause", "Unpause">>
    /\ ran = {"animate_music_timeline"}
    /\ ~timeline_state.timer.paused
    /\ \E n \in notes :
           /\ n.y < TIMELINE_TOP * PosScale
           /\ TIMELINE_LENGTH * TimeScale * (n.y - TIMELINE_TOP * PosScale)
                  = (n.time - timeline_state.timer.elapsed)
                        * TIMELINE_TOP * PosScale

\* C10: one key event that hits one live note at height y at or below the
\* strike line adds 1000 - c to the score, where c is
\* 1000 * (WHITE_KEY_HEIGHT - y) / 5 truncated to an integer; a note exactly
\* on the strike line adds exactly 1000.
C10_ScoreFormula ==
    [][(check_timeline_collisions /\ Len(unread) = 1)
           => \A n \in notes :
                  (/\ n.key = unread[1].id
                   /\ n.y <= WHITE_KEY_HEIGHT
                   /\ \A m \in notes : m.key = n.key => m = n)
                      => LET c == 1000 - (game_state'.score - game_state.score)
                         IN  /\ c * 5 * PosScale <= 1000 * (WHITE_KEY_HEIGHT - n.y)
                             /\ 1000 * (WHITE_KEY_HEIGHT - n.y) < (c + 1) * 5 * PosScale
                             /\ (n.y = WHITE_KEY_HEIGHT => c = 0)]_vars

\* a note just below the strike line was hit: its cost of 12.5 was truncated
\* to 12 and the hit added 988
C10_Witness ==
    /\ "check_timeline_collisions" \in ran
    /\ Len(judged) = 1
    /\ game_state.score = 988
    /\ \E n \in notes :
           /\ n.key = judged[1].id
           /\ n.id \in despawned
           /\ 2 * 1000 * (WHITE_KEY_HEIGHT - n.y) = 25 * 5 * PosScale

\* C11: clear_complete_timeline_notes despawns every live note at or below
\* TIMELINE_BOTTOM, despawns no note above it and leaves the score unchanged;
\* the despawned notes are gone when the frame's commands are applied.
C11_MissIsFree ==
    [][/\ clear_complete_timeline_notes
           => /\ \A n \in notes :
                     /\ n.y <= TIMELINE_BOTTOM * PosScale => n.id \in despawned'
                     /\ n.y > TIMELINE_BOTTOM * PosScale
                            => (n.id \in despawned' <=> n.id \in despawned)
              /\ game_state' = game_state
       /\ end_frame
           => \A n \in notes : n.id \in despawned => n \notin notes']_vars

\* with no key event ever sent, the despawn step has just marked a note that
\* fell to the bottom while another live note above the bottom is left alone,
\* and the score is still 0
C11_Witness ==
    /\ nframes = 0
    /\ "clear_complete_timeline_notes" \in ran
    /\ game_state.score = 0
    /\ \E n \in notes : n.y <= TIMELINE_BOTTOM * PosScale /\ n.id \in despawned
    /\ \E n \in notes : n.y > TIMELINE_BOTTOM * PosScale /\ n.id \notin despawned

\* C12: a Released key event never changes the score and never despawns a
\* note, even when its id is the key of a live note at or below the strike line.
C12_ReleasedNotJudged ==
    [][(/\ check_timeline_collisions
        /\ \A i \in 1..Len(unread) : unread[i].event = "Released")
           => /\ game_state' = game_state
              /\ despawned' = despawned]_vars

\* C13: a run of check_timeline_collisions whose key events match the key of
\* no live note leaves the score, the live notes, the pending despawns and
\* the timeline state unchanged.
C13_NoMatchNoOp ==
    [][(/\ check_timeline_collisions
        /\ unread # <<>>
        /\ \A i \in 1..Len(unread) : \A n \in notes : n.key # unread[i].id)
           => /\ game_state' = game_state
              /\ notes' = notes
              /\ despawned' = despawned
              /\ timeline_state' = timeline_state]_vars

\* the collision system has just read a key event while notes of other keys
\* only were live, one of them at or below the strike line
C13_Witness ==
    /\ "check_timeline_collisions" \in ran
    /\ judged # <<>>
    /\ \A i \in 1..Len(judged) : \A n \in notes : n.key # judged[i].id
    /\ \E n \in notes : n.y <= WHITE_KEY_HEIGHT /\ n.id \notin despawned
    /\ game_state.score = 0

\* C14: every key event pending in the channel when sync_keys runs is
\* written for this frame's judgement by that run.
C14_DrainVisibility ==
    [][sync_keys
           => \A i \in 1..Len(channel) :
                  channel[i].type = "Input"
                      => \E j \in 1..Len(unread') : unread'[j] = channel[i].key]_vars

\* C15: a run of sync_keys removes at most one message from the channel,
\* the oldest; with an empty channel it changes nothing: no key event is
\* written and the input state stays as it was.
C15_OneMessagePerTick ==
    [][sync_keys
           => /\ channel = <<>>
                     => /\ channel' = <<>>
                        /\ input_state' = input_state
                        /\ broadcast' = broadcast
                        /\ unread' = unread
              /\ channel # <<>>
                     => /\ channel' = Tail(channel)
                        /\ Len(broadcast') <= Len(broadcast) + 1]_vars

\* three key events were pending when the frame began; sync_keys has run
\* once, has taken the first and left the other two in the channel
C15_Witness ==
    /\ ran = {"sync_keys"}
    /\ Len(sent) = 3
    /\ received = <<MsgInput(sent[1])>>
    /\ broadcast = <<sent[1]>>
    /\ channel = <<MsgInput(sent[2]), MsgInput(sent[3])>>

\* C16: the key events written by sync_keys are at every point a prefix of
\* the key events the callback sent, and the rest of them is still in the
\* channel in the order sent: nothing is lost, duplicated or reordered.
C16_FifoExactlyOnce ==
    /\ Len(broadcast) <= Len(sent)
    /\ broadcast = SubSeq(sent, 1, Len(broadcast))
    /\ broadcast \o InputKeys(channel) = sent

\* callbacks and frames have interleaved: four events written, more sent
\* since, and the history shows the latest written
C16_Witness ==
    /\ Len(broadcast) = 4
    /\ Len(sent) > 6
    /\ Len(channel) = Len(sent) - 4
    /\ input_state.keys[4] = sent[4]

\* C17: receiving Connected sets connected to true and receiving
\* Disconnected sets it to false, and neither changes the key history or
\* writes a key event; receiving Input never changes connected.
C17_ConnectivityMessages ==
    [][(sync_keys /\ channel # <<>>)
           => /\ Head(channel).type = "Connected"
                     => /\ input_state'.connected
                        /\ input_state'.keys = input_state.keys
                        /\ broadcast' = broadcast
                        /\ unread' = unread
              /\ Head(channel).type = "Disconnected"
                     => /\ ~input_state'.connected
                        /\ input_state'.keys = input_state.keys
                        /\ broadcast' = broadcast
                        /\ unread' = unread
              /\ Head(channel).type = "Input"
                     => input_state'.connected = input_state.connected]_vars

\* an Input, then Connected, then Disconnected were received in three
\* frames: the flag is false and the history holds the one key
C17_Witness ==
    /\ Len(received) = 3
    /\ received[1].type = "Input"
    /\ received[2] = MsgConnected
    /\ received[3] = MsgDisconnected
    /\ ~input_state.connected
    /\ input_state.keys = <<received[1].key>>
    /\ broadcast = <<received[1].key>>

\* C18: once the device behind the stored connection is lost, the connected
\* flag eventually becomes false in an app that keeps running (unless a new
\* connection is opened first).
C18_DisconnectionReflected ==
    (link = "lost") ~> (~input_state.connected \/ link = "open" \/ panicked)

\* C19: a run of select_device whose every request fails, by an index
\* outside the driver's port list or by a connect error, sends no Connected
\* message, stores no connection, leaves the input state unchanged and does
\* not panic; the same holds, short of a panic, whenever every requested
\* index is outside the port list.
C19_FailedSelectionContained ==
    [][select_device
           => /\ (/\ select_events # <<>>
                  /\ Len(attempts') = Len(select_events)
                  /\ \A i \in 1..Len(attempts') :
                         attempts'[i] \in {"invalid port", "connect error"})
                     => /\ channel' = channel
                        /\ connection' = connection
                        /\ link' = link
                        /\ input_state' = input_state
                        /\ ~panicked'
              /\ (/\ \A i \in 1..Len(select_events) :
                         select_events[i] >= device_ports
                  /\ ~panicked')
                     => /\ channel' = channel
                        /\ connection' = connection
                        /\ link' = link
                        /\ input_state' = input_state]_vars

\* select_device has just handled two requests, one for a port that is gone
\* and one that the driver refused: nothing was sent or stored, the app is
\* not connected and still runs
C19_Witness ==
    /\ "select_device" \in ran
    /\ Len(attempts) = 2
    /\ \E i \in 1..2 : attempts[i] = "invalid port"
    /\ \E i \in 1..2 : attempts[i] = "connect error"
    /\ channel = <<>>
    /\ connection = <<>>
    /\ ~input_state.connected
    /\ ~panicked

\* C20: no failure at the device boundary panics inside a frame.
C20_NoPanic == ~panicked

\* C21: a raw frame of fewer than 3 bytes makes the callback send nothing:
\* the channel, the key history, the key events written and the score are
\* as they were.
C21_MalformedFrames ==
    [][\A message \in RawFrames :
           (Len(message) < 3 /\ Callback(message, MaxRawFrames))
               => /\ channel' = channel
                  /\ input_state' = input_state
                  /\ broadcast' = broadcast
                  /\ unread' = unread
                  /\ game_state' = game_state]_vars

\* two short frames were delivered and a frame's sync_keys has run since:
\* nothing is in the channel, in the history or written, and the score is 0
C21_Witness ==
    /\ nframes = 2
    /\ sent = <<>>
    /\ "sync_keys" \in ran
    /\ channel = <<>>
    /\ input_state.keys = <<>>
    /\ broadcast = <<>>
    /\ game_state.score = 0

\* C22: for a raw frame of at least 3 bytes the callback sends exactly one
\* Input whose kind is Pressed for status 144, Released for 128, Holding for
\* 160 and Pressed for any other status, whose id is byte 1 and whose
\* intensity is byte 2.
C22_FrameTranslation ==
    [][\A message \in RawFrames :
           (Len(message) >= 3 /\ Callback(message, MaxRawFrames))
               => /\ Len(channel') = Len(channel) + 1
                  /\ SubSeq(channel', 1, Len(channel)) = channel
                  /\ LET last == channel'[Len(channel')]
                     IN  /\ last.type = "Input"
                         /\ last.key.id = message[2]
                         /\ last.key.intensity = message[3]
                         /\ last.key.event =
                                (IF message[1] = 144 THEN "Pressed"
                                 ELSE IF message[1] = 128 THEN "Released"
                                 ELSE IF message[1] = 160 THEN "Holding"
                                 ELSE "Pressed")]_vars

\* an aftertouch frame and a control change frame were delivered: the first
\* was sent as Holding, the second as Pressed with its bytes 1 and 2
C22_Witness ==
    /\ Len(sent) = 2
    /\ sent[1].event = "Holding" /\ sent[1].id = 39 /\ sent[1].intensity = 10
    /\ sent[2].event = "Pressed" /\ sent[2].id = 7 /\ sent[2].intensity = 100

\* C23: at no point are two connections alive: a switch closes the prior
\* connection before, or in place of, opening the new one.
C23_SingleConnection == Len(AliveConnections) <= 1

\* C24: the frames keep coming whatever a connect does: again and again a
\* frame boundary is reached (or the app has panicked).
C24_TicksKeepRunning ==
    []<>((ran = {} /\ select_run.pc = "idle") \/ panicked)

\* C25: no chart item is spawned twice between two resets. As long as Reset
\* was never clicked, every live or pending note stems from a chart item of
\* its own: no two of them have the same chart time.
C25_NoRespawn ==
    (\A i \in 1..Len(clicks) : clicks[i] # "Reset")
        => \A n, m \in notes \cup spawned : n.time = m.time => n = m

\* C26: a run of check_timeline_collisions that reads a single key event
\* despawns at most one note and raises the score by at most INITIAL_SCORE,
\* however many live notes of that key are at or below the strike line.
C26_FirstMatchOnly ==
    [][("check_timeline_collisions" \in ran' \ ran /\ Len(unread) = 1)
           => /\ Cardinality(despawned' \ despawned) <= 1
              /\ game_state'.score - game_state.score <= INITIAL_SCORE]_vars

\* C27: a note is scored at most once, also when one run of
\* check_timeline_collisions reads two key events with the same id: the
\* score rises by at most INITIAL_SCORE for each note the run despawns.
C27_ScoredAtMostOnce ==
    []["check_timeline_collisions" \in ran' \ ran
           => game_state'.score - game_state.score
                  <= INITIAL_SCORE * Cardinality(despawned' \ despawned)]_vars

\* C28: while playing is false (before and after the step) the clock does
\* not advance and no note is spawned.
C28_SchedulerOnlyWhilePlaying ==
    [][(~timeline_state.playing /\ ~timeline_state'.playing)
           => /\ timeline_state'.timer.elapsed <= timeline_state.timer.elapsed
              /\ spawned' \subseteq spawned]_vars

\* C29: in a session that was started, playing is true exactly when the
\* clock is advancing: the timer is neither paused nor finished.
C29_PlayingMatchesClock ==
    timeline_state.timer.duration > 0
        => (timeline_state.playing
                <=> (~timeline_state.timer.paused /\ ~timeline_state.timer.finished))

\* C30: while the timer stays paused and Reset is not clicked, the elapsed
\* time, the cursor, the complete flag and the height of every live note
\* stay as they are.
C30_PauseFreezes ==
    [][(timeline_state.timer.paused /\ timeline_state'.timer.paused /\ ~reset)
           => /\ timeline_state'.timer.elapsed = timeline_state.timer.elapsed
              /\ timeline_state'.current = timeline_state.current
              /\ timeline_state'.complete = timeline_state.complete
              /\ \A n \in notes : \A k \in notes' : k.id = n.id => k.y = n.y]_vars

\* C31: in a frame the timeline clock advances by the frame's delta once,
\* not twice: the advance of the running clock within a frame never exceeds
\* the frame's delta.
C31_ClockRate == frame_advance <= delta

\* C32: a note is created only by spawn_music_timeline, in a frame where
\* complete is false and the elapsed time has reached the time of the chart
\* item at current; it carries that item's time and note; at most one note
\* is created per frame; and the cursor then moves to the next item of the
\* chart, or stays on the last one with complete set.
C32_SpawnConditionAndOrder ==
    [][/\ Cardinality(spawned') <= 1
       /\ (spawned' \ spawned # {})
              => LET item == MUSIC_TIMELINE[timeline_state.current + 1]
                 IN  /\ "spawn_music_timeline" \in ran' \ ran
                     /\ ~timeline_state.complete
                     /\ timeline_state.timer.elapsed >= item.time
                     /\ \E n \in spawned' :
                            /\ spawned' = spawned \cup {n}
                            /\ n.time = item.time
                            /\ n.key = item.note
                     /\ \/ timeline_state'.current = timeline_state.current + 1
                        \/ /\ timeline_state'.current = timeline_state.current
                           /\ timeline_state.current = Len(MUSIC_TIMELINE) - 1
                           /\ timeline_state'.complete]_vars

\* the second chart item has just been spawned, the first is live
C32_Witness ==
    /\ \E n \in spawned : n.key = 39 /\ n.time = MUSIC_TIMELINE[2].time
    /\ \E n \in notes : n.key = 38
    /\ timeline_state.current = 2
    /\ ~timeline_state.complete

\* C33: current is always a valid index of the chart, and a run of
\* spawn_music_timeline with complete set spawns nothing and leaves current
\* as it is.
C33_ChartIndexInBounds ==
    [][/\ timeline_state.current < Len(MUSIC_TIMELINE)
       /\ timeline_state'.current < Len(MUSIC_TIMELINE)
       /\ ("spawn_music_timeline" \in ran' \ ran /\ timeline_state.complete)
              => /\ spawned' = spawned
                 /\ timeline_state'.current = timeline_state.current]_vars

\* the chart is exhausted, the clock still runs past the last item's time,
\* and spawn_music_timeline has run in this frame without spawning
C33_Witness ==
    /\ timeline_state.complete
    /\ ~timeline_state.timer.finished
    /\ timeline_state.current = Len(MUSIC_TIMELINE) - 1
    /\ "spawn_music_timeline" \in ran
    /\ spawned = {}
    /\ notes # {}

JustStarted(k) ==
    /\ Len(clicks) = k
    /\ \A i \in 1..k : clicks[i] = "Start"
    /\ timeline_state.playing
    /\ ~timeline_state.complete
    /\ timeline_state.timer.elapsed = 0
    /\ notes \cup spawned = {}

\* C36: after a Start, with the frames running and no other click, the
\* chart is spawned from its first item on: the first chart item is
\* eventually spawned and complete eventually becomes true.
C36_SessionCompletes ==
    \A k \in 1..MaxInputs :
        /\ JustStarted(k) ~>
               \/ Len(clicks) > k
               \/ \E n \in spawned : n.time = MUSIC_TIMELINE[1].time
        /\ JustStarted(k) ~> (Len(clicks) > k \/ timeline_state.complete)

\* C37: whenever a key event is broadcast, connected is already true: the
\* Connected message of a connection is handled before any Input message of
\* its callback.
C37_KeyEventsImplyConnected ==
    [][broadcast' # broadcast => input_state.connected]_vars

\* C38: with the frames running, the i-th Input message a callback has
\* sent is eventually broadcast as the i-th key event and is then the newest
\* entry of the history, however many messages are queued before it.
C38_EventualDelivery ==
    \A i \in 1..MaxBridgeFrames :
        (Len(sent) >= i /\ Len(broadcast) < i)
            ~> /\ Len(broadcast) = i
               /\ broadcast[i] = sent[i]
               /\ input_state.keys # <<>>
               /\ input_state.keys[Len(input_state.keys)] = sent[i]

\* key events have been delivered in order while at least two more
\* messages wait in the channel
C38_Witness ==
    /\ Len(channel) >= 2
    /\ Len(broadcast) >= 2
    /\ \A i \in 1..Len(broadcast) : broadcast[i] = sent[i]
    /\ input_state.keys[Len(input_state.keys)] = sent[Len(broadcast)]

\* C39: right after animate_music_timeline has run, every live note is due:
\* its chart time is at most the elapsed time of the clock, and its height
\* is at most TIMELINE_TOP.
C39_LiveNotesAreDue ==
    []["animate_music_timeline" \in ran' \ ran
           => \A n \in notes' :
                  /\ n.time <= timeline_state'.timer.elapsed
                  /\ n.y <= TIMELINE_TOP * PosScale]_vars

====
